---- MODULE Spec2Model ----
(***************************************************************************)
(* A model of the two pipelines of financial-analysis-llms:                *)
(*   - the checkpointed, thread-pooled ingestion of pinecone_utils.py      *)
(*     (PineconeUtils and the script at the bottom of the file);           *)
(*   - the /explore request handler of flask/app.py.                       *)
(* External services (Yahoo Finance, the embedding model, Pinecone, the    *)
(* Groq completion model) are nondeterministic choices over what they can  *)
(* return or raise.                                                        *)
(***************************************************************************)
EXTENDS Integers, Sequences, FiniteSets, TLC

VARIABLES
    \* ---- durable state (survives the process) ----
    succ_file,              \* successful_tickers.txt: [exists, lines]
    fail_file,              \* unsuccessful_tickers.txt: [exists, lines]
    index,                  \* Pinecone index "stocks"/"stock-descriptions": ticker -> number of vectors stored for it
    \* ---- the ingestion process ----
    run,                    \* which process (run of the script) this is
    mainpc,                 \* position of the script's main thread
    startup,                \* what _load_history returned to __init__ (line 26)
    successful_tickers,     \* self.successful_tickers
    unsuccessful_tickers,   \* self.unsuccessful_tickers
    tickers,                \* tickers_to_process handed to parallel_process_stocks
    max_workers,            \* the pool's width: the script's max_workers argument
    pc,                     \* position of each submitted _process_stock task
    stock_description,      \* each task's local stock_data['Business Summary']
    result,                 \* each task's return value (its future's result)
    \* ---- the external services of ingestion ----
    company_tickers,        \* the listing served at the GitHub URL of get_tickers
    yf,                     \* ticker -> the outcomes yf.Ticker(symbol).info can have
    pinecone,               \* the outcomes PineconeVectorStore.from_documents can have
    fs,                     \* the outcomes appending a line to a log file can have
    \* ---- one /explore request of flask/app.py ----
    epc,                    \* position of the handler
    user_query,             \* data["user_query"]
    content,                \* response.choices[0].message.content
    formatted_response,     \* json.loads(content)
    question_embeddings,    \* the vector sent to the index
    top_matches,            \* the matches the index returned
    augmented_context,      \* the context block
    status,                 \* the HTTP status of the response (0: none yet)
    completions,            \* completion requests issued by this request
    queries                 \* index queries issued by this request, in order

ingest_vars == <<succ_file, fail_file, index, run, mainpc, startup,
                 successful_tickers, unsuccessful_tickers, tickers, max_workers,
                 pc, stock_description, result, company_tickers, yf, pinecone, fs>>

explore_vars == <<epc, user_query, content, formatted_response, question_embeddings,
                  top_matches, augmented_context, status, completions, queries>>

vars == <<ingest_vars, explore_vars>>

-----------------------------------------------------------------------------
\* Bounds of the model.

\* Longest batch handed to parallel_process_stocks.
MaxBatch == 2
\* Widest pool.
MaxWorkers == 2
\* Number of processes (runs of the script) in one behaviour.
MaxRuns == 2

\* Ticker symbols of the batches (alphanumeric, no whitespace).
Symbols == {"A", "B"}
\* Every ticker symbol the external services know.
Universe == {"A", "B", "C", "D", "E"}
\* Size of the batch of distinct symbols of which one always fails its fetch.
IsoBatch == 4

-----------------------------------------------------------------------------
\* Helpers.

Range(s) == {s[k] : k \in 1..Len(s)}

\* The number of lines of a log that hold the symbol.
Count(s, x) == Cardinality({k \in 1..Len(s) : s[k] = x})

Min(a, b) == IF a <= b THEN a ELSE b

\* Python's None.
None == "None"

NoFile == [exists |-> FALSE, lines |-> <<>>]

\* All batches: sequences of symbols, the empty one and repeated symbols
\* included. The code treats every symbol alike, so a batch is listed up to the
\* renaming of its symbols: its first symbol is "A".
Batches ==
    {batch \in UNION {[1..n -> Symbols] : n \in 0..MaxBatch} :
        batch = <<>> \/ batch[1] = "A"}

Tasks == 1..Len(tickers)

-----------------------------------------------------------------------------
\* The checkpoint files.

\* f"{stock_ticker}\n": a line of a log is the ticker and the line's end.
Line(stock_ticker) == [text |-> stock_ticker, end |-> "\n"]

\* str.strip() of a line read from a log: the line without its end (a ticker
\* has no whitespace of its own); a line holding nothing but "\n" gives "".
Strip(line) == line.text

\* The symbols written on the lines of a log, in order.
Logged(file) == [k \in 1..Len(file.lines) |-> file.lines[k].text]

\* [line.strip() for line in f if line.strip()]; [] when the file is absent
\* (FileNotFoundError is caught).
ReadLog(file) ==
    IF file.exists
    THEN LET kept == SelectSeq(file.lines, LAMBDA line : Strip(line) # "")
         IN  [k \in 1..Len(kept) |-> Strip(kept[k])]
    ELSE <<>>

\* Mutant of LoadHistory: both logs are read in one try block, so an absent
\* success log ends the loading before the failure log is read.
LoadHistoryOneTry(sfile, ffile) ==
    [successful |-> ReadLog(sfile),
     unsuccessful |-> IF sfile.exists THEN ReadLog(ffile) ELSE <<>>]

\* _load_history: the two lists, each log read independently of the other.
LoadHistory(sfile, ffile) ==
    [successful |-> ReadLog(sfile), unsuccessful |-> ReadLog(ffile)]

\* Mutant of AppendLine: mode 'w', which truncates the log.
AppendLineTruncating(file, stock_ticker) ==
    [exists |-> TRUE, lines |-> <<Line(stock_ticker)>>]

\* with open(name, 'a') as f: f.write(f"{stock_ticker}\n")
\* Mode 'a' creates the file when it is absent and never truncates it.
AppendLine(file, stock_ticker) ==
    [exists |-> TRUE, lines |-> Append(file.lines, Line(stock_ticker))]

-----------------------------------------------------------------------------
\* _process_stock.

\* Mutant of AlreadyProcessed: the check never skips.
AlreadyProcessedNever(stock_ticker, successful) == FALSE

\* Mutant of AlreadyProcessed: the check reads the failures instead.
AlreadyProcessedByFailure(stock_ticker, successful) ==
    stock_ticker \in Range(unsuccessful_tickers)

\* Mutant of AlreadyProcessed: the check reads a copy of the list taken when
\* the history was loaded.
AlreadyProcessedAtStartup(stock_ticker, successful) ==
    stock_ticker \in Range(startup.successful)

\* Mutant of AlreadyProcessed: a symbol in either list is skipped.
AlreadyProcessedInEitherList(stock_ticker, successful) ==
    stock_ticker \in Range(successful) \cup Range(unsuccessful_tickers)

\* if stock_ticker in self.successful_tickers
AlreadyProcessed(stock_ticker, successful) == stock_ticker \in Range(successful)

\* Mutant of Running: the pool does not count its busy workers, so every
\* submitted task gets a thread at once.
RunningNobody == {}

\* Mutant of Running: a worker that has run a task is never free again.
RunningLeak == {i \in Tasks : pc[i] # "queued"}

\* The tasks a worker thread is running.
Running == {i \in Tasks : pc[i] \notin {"queued", "done"}}

\* stock_info.get("longBusinessSummary"): no default, so a provider answer
\* without the key gives None.
BusinessSummary(info) == IF info = "full" THEN "text" ELSE None

\* A worker takes the next queued task (FIFO), runs the membership check and,
\* unless the symbol is skipped, _get_stock_info.
Start(i) ==
    /\ mainpc = "pool"
    /\ i \in Tasks
    /\ pc[i] = "queued"
    /\ \A j \in Tasks : j < i => pc[j] # "queued"
    /\ Cardinality(Running) < max_workers
    /\ IF AlreadyProcessed(tickers[i], successful_tickers)
       THEN /\ pc' = [pc EXCEPT ![i] = "done"]
            /\ result' = [result EXCEPT ![i] = "Already processed"]
            /\ UNCHANGED stock_description
       ELSE \E info \in yf[tickers[i]] :
              /\ pc' = [pc EXCEPT ![i] = IF info = "raise" THEN "except" ELSE "upsert"]
              /\ stock_description' =
                   [stock_description EXCEPT ![i] =
                       IF info = "raise" THEN "unset" ELSE BusinessSummary(info)]
              /\ UNCHANGED result
    /\ UNCHANGED <<succ_file, fail_file, index, run, mainpc, startup,
                   successful_tickers, unsuccessful_tickers, tickers,
                   max_workers, company_tickers, yf, pinecone, fs>>
    /\ UNCHANGED explore_vars

\* Mutant of Upsert: an error of the index write is swallowed, and the success
\* is recorded all the same.
UpsertSwallowsError(i) ==
    /\ mainpc = "pool"
    /\ i \in Tasks
    /\ pc[i] = "upsert"
    /\ \E r \in pinecone :
         IF stock_description[i] # None /\ r = "ok"
         THEN /\ index' = [index EXCEPT ![tickers[i]] = @ + 1]
              /\ pc' = [pc EXCEPT ![i] = "track_success"]
         ELSE /\ pc' = [pc EXCEPT ![i] = "track_success"]
              /\ UNCHANGED index
    /\ stock_description' = [stock_description EXCEPT ![i] = "unset"]
    /\ UNCHANGED <<succ_file, fail_file, run, mainpc, startup,
                   successful_tickers, unsuccessful_tickers, tickers,
                   max_workers, result, company_tickers, yf, pinecone, fs>>
    /\ UNCHANGED explore_vars

\* PineconeVectorStore.from_documents([Document(page_content=..., metadata=...)]).
\* Document rejects a page_content of None; the index write can raise. No id is
\* passed, so every call stores one more vector. The description is not read
\* again after the call.
Upsert(i) ==
    /\ mainpc = "pool"
    /\ i \in Tasks
    /\ pc[i] = "upsert"
    /\ \E r \in pinecone :
         IF stock_description[i] # None /\ r = "ok"
         THEN /\ index' = [index EXCEPT ![tickers[i]] = @ + 1]
              /\ pc' = [pc EXCEPT ![i] = "track_success"]
         ELSE /\ pc' = [pc EXCEPT ![i] = "except"]
              /\ UNCHANGED index
    /\ stock_description' = [stock_description EXCEPT ![i] = "unset"]
    /\ UNCHANGED <<succ_file, fail_file, run, mainpc, startup,
                   successful_tickers, unsuccessful_tickers, tickers,
                   max_workers, result, company_tickers, yf, pinecone, fs>>
    /\ UNCHANGED explore_vars

\* Mutant of WriteSuccess: the in-memory list is appended to first; the file
\* is written by the next step.
WriteSuccessMemoryFirst(i) ==
    /\ mainpc = "pool"
    /\ i \in Tasks
    /\ pc[i] = "track_success"
    /\ successful_tickers' = Append(successful_tickers, tickers[i])
    /\ pc' = [pc EXCEPT ![i] = "append_success"]
    /\ UNCHANGED <<succ_file, fail_file, index, run, mainpc, startup,
                   unsuccessful_tickers, tickers,
                   max_workers, stock_description, result, company_tickers, yf, pinecone, fs>>
    /\ UNCHANGED explore_vars

\* Track success, first half: the line is appended to successful_tickers.txt.
\* The write is inside the try block: when it raises, the except block runs.
WriteSuccess(i) ==
    /\ mainpc = "pool"
    /\ i \in Tasks
    /\ pc[i] = "track_success"
    /\ \E w \in fs :
         IF w = "ok"
         THEN /\ succ_file' = AppendLine(succ_file, tickers[i])
              /\ pc' = [pc EXCEPT ![i] = "append_success"]
         ELSE /\ pc' = [pc EXCEPT ![i] = "except"]
              /\ UNCHANGED succ_file
    /\ UNCHANGED <<fail_file, index, run, mainpc, startup,
                   successful_tickers, unsuccessful_tickers, tickers,
                   max_workers, stock_description, result, company_tickers, yf, pinecone, fs>>
    /\ UNCHANGED explore_vars

\* Track success, second half: the in-memory list, and the return.
AppendSuccess(i) ==
    /\ mainpc = "pool"
    /\ i \in Tasks
    /\ pc[i] = "append_success"
    /\ successful_tickers' = Append(successful_tickers, tickers[i])
    /\ pc' = [pc EXCEPT ![i] = "done"]
    /\ result' = [result EXCEPT ![i] = "Processed"]
    /\ UNCHANGED <<succ_file, fail_file, index, run, mainpc, startup, stock_description,
                   unsuccessful_tickers, tickers, max_workers, company_tickers, yf, pinecone, fs>>
    /\ UNCHANGED explore_vars

\* Mutant of WriteFailure: the except block appends to successful_tickers.txt.
WriteFailureWrongLog(i) ==
    /\ mainpc = "pool"
    /\ i \in Tasks
    /\ pc[i] = "except"
    /\ \E w \in fs :
         IF w = "ok"
         THEN /\ succ_file' = AppendLine(succ_file, tickers[i])
              /\ pc' = [pc EXCEPT ![i] = "append_failure"]
              /\ UNCHANGED result
         ELSE /\ pc' = [pc EXCEPT ![i] = "done"]
              /\ result' = [result EXCEPT ![i] = "EXCEPTION"]
              /\ UNCHANGED succ_file
    /\ UNCHANGED <<fail_file, index, run, mainpc, startup,
                   successful_tickers, unsuccessful_tickers, tickers,
                   max_workers, stock_description, company_tickers, yf, pinecone, fs>>
    /\ UNCHANGED explore_vars

\* Mutant of WriteFailure: the exception of the failed write reaches the main
\* thread and ends the script.
WriteFailureUncaught(i) ==
    /\ mainpc = "pool"
    /\ i \in Tasks
    /\ pc[i] = "except"
    /\ \E w \in fs :
         IF w = "ok"
         THEN /\ fail_file' = AppendLine(fail_file, tickers[i])
              /\ pc' = [pc EXCEPT ![i] = "append_failure"]
              /\ UNCHANGED <<result, mainpc>>
         ELSE /\ pc' = [pc EXCEPT ![i] = "done"]
              /\ result' = [result EXCEPT ![i] = "EXCEPTION"]
              /\ mainpc' = "aborted"
              /\ UNCHANGED fail_file
    /\ UNCHANGED <<succ_file, index, run, startup,
                   successful_tickers, unsuccessful_tickers, tickers,
                   max_workers, stock_description, company_tickers, yf, pinecone, fs>>
    /\ UNCHANGED explore_vars

\* except Exception, first half: the line is appended to unsuccessful_tickers.txt.
\* The write is outside any try block: when it raises, the exception leaves
\* _process_stock and is the future's exception, which the as_completed loop
\* catches and prints (lines 185, 193-195).
WriteFailure(i) ==
    /\ mainpc = "pool"
    /\ i \in Tasks
    /\ pc[i] = "except"
    /\ \E w \in fs :
         IF w = "ok"
         THEN /\ fail_file' = AppendLine(fail_file, tickers[i])
              /\ pc' = [pc EXCEPT ![i] = "append_failure"]
              /\ UNCHANGED result
         ELSE /\ pc' = [pc EXCEPT ![i] = "done"]
              /\ result' = [result EXCEPT ![i] = "EXCEPTION"]
              /\ UNCHANGED fail_file
    /\ UNCHANGED <<succ_file, index, run, mainpc, startup,
                   successful_tickers, unsuccessful_tickers, tickers,
                   max_workers, stock_description, company_tickers, yf, pinecone, fs>>
    /\ UNCHANGED explore_vars

\* except Exception, second half: the in-memory list, and the return.
AppendFailure(i) ==
    /\ mainpc = "pool"
    /\ i \in Tasks
    /\ pc[i] = "append_failure"
    /\ unsuccessful_tickers' = Append(unsuccessful_tickers, tickers[i])
    /\ pc' = [pc EXCEPT ![i] = "done"]
    /\ result' = [result EXCEPT ![i] = "ERROR"]
    /\ UNCHANGED <<succ_file, fail_file, index, run, mainpc, startup, stock_description,
                   successful_tickers, tickers, max_workers, company_tickers, yf, pinecone, fs>>
    /\ UNCHANGED explore_vars

-----------------------------------------------------------------------------
\* The script: construction, get_tickers, parallel_process_stocks.

\* get_tickers and the call of parallel_process_stocks: the listing is
\* downloaded and one task per ticker is submitted; when the download fails
\* get_tickers returns None (or requests.get raises) and tickers.keys() ends
\* the script.
GetTickers ==
    /\ mainpc = "get_tickers"
    /\ \E ok \in BOOLEAN :
         IF ok
         THEN /\ tickers' = company_tickers
              /\ pc' = [i \in 1..Len(company_tickers) |-> "queued"]
              /\ stock_description' = [i \in 1..Len(company_tickers) |-> "unset"]
              /\ result' = [i \in 1..Len(company_tickers) |-> ""]
              /\ mainpc' = "pool"
         ELSE /\ mainpc' = "aborted"
              /\ UNCHANGED <<tickers, pc, stock_description, result>>
    /\ UNCHANGED <<succ_file, fail_file, index, run, startup, max_workers,
                   successful_tickers, unsuccessful_tickers, company_tickers, yf, pinecone, fs>>
    /\ UNCHANGED explore_vars

\* The as_completed loop has consumed every future and the executor's with
\* block ends: the script is over.
PoolJoin ==
    /\ mainpc = "pool"
    /\ \A i \in Tasks : pc[i] = "done"
    /\ mainpc' = "exit"
    /\ UNCHANGED <<succ_file, fail_file, index, run, startup,
                   successful_tickers, unsuccessful_tickers, tickers,
                   max_workers, pc, stock_description, result, company_tickers, yf, pinecone, fs>>
    /\ UNCHANGED explore_vars

\* A new process: nothing of the old one's memory is left, and __init__ loads
\* the two logs.
Construct ==
    /\ run' = run + 1
    /\ startup' = LoadHistory(succ_file, fail_file)
    /\ successful_tickers' = startup'.successful
    /\ unsuccessful_tickers' = startup'.unsuccessful
    /\ tickers' = <<>>
    /\ pc' = <<>>
    /\ stock_description' = <<>>
    /\ result' = <<>>
    /\ mainpc' = "get_tickers"
    /\ UNCHANGED <<succ_file, fail_file, index, max_workers, company_tickers, yf, pinecone, fs>>
    /\ UNCHANGED explore_vars

\* The process is killed at any point of the run, and the script is started again.
Crash ==
    /\ mainpc \in {"get_tickers", "pool"}
    /\ run < MaxRuns
    /\ Construct

\* The script has ended and is started again.
Rerun ==
    /\ mainpc \in {"exit", "aborted"}
    /\ run < MaxRuns
    /\ Construct

-----------------------------------------------------------------------------
\* flask/app.py: the values of one /explore request.

\* Longest answer the index is taken to give to one query.
MaxMatches == 12

\* top_k of the index query.
TopK == 10
\* The slice context[ : 10].
ContextLimit == 10

NAMESPACE == "stock-descriptions"

\* The metadata fields and the operators the prompt declares.
SchemaFields == {"Analyst Recommendation", "Business Summary", "City", "Country",
                 "Industry", "Market Cap", "Name", "PE Ratio", "Price", "Sector",
                 "State", "Ticker", "Volume"}
LeafOperators == {"$eq", "$ne", "$gt", "$gte", "$lt", "$lte", "$in", "$nin", "$exists"}
CompositeOperators == {"$and", "$or"}

\* A filter is a dict: a sequence of entries. A field entry {field: {op: value}}
\* holds the operators of its condition; a composite entry {op: [filter, ...]}
\* holds its sub-filters. Values are left out.
Leaf(field, op) == [key |-> field, ops |-> <<op>>, subs |-> <<>>]
Composite(op, filters) == [key |-> op, ops |-> <<>>, subs |-> filters]

EmptyFilter == <<>>

\* The filters the completion model is taken to produce.
Filters == {
    EmptyFilter,
    <<Leaf("Market Cap", "$gte")>>,
    <<Composite("$and", << <<Leaf("Market Cap", "$gte")>>, <<Leaf("Sector", "$eq")>> >>)>>,
    <<Leaf("Foo", "$eq")>>,
    <<Leaf("Sector", "$regex")>>,
    <<Composite("$or", << <<Leaf("Sector", "$eq")>>, <<Leaf("Foo", "$eq")>> >>)>>,
    <<Composite("$not", << <<Leaf("Sector", "$eq")>> >>)>> }

UserQueries == {"tech companies with market cap over 10 billion"}
Questions == {"", "tech companies"}

\* A JSON value: an object with some of the keys filter and question, or an array.
JsonObject(keys, filter, question) ==
    [type |-> "object", keys |-> keys, filter |-> filter, question |-> question]
JsonArray == [type |-> "array", keys |-> {}, filter |-> EmptyFilter, question |-> ""]
NoJson == [type |-> "none", keys |-> {}, filter |-> EmptyFilter, question |-> ""]

JsonValues ==
    {JsonObject({"filter", "question"}, f, q) : f \in Filters, q \in Questions}
    \cup {JsonObject({"filter"}, f, "") : f \in Filters}
    \cup {JsonObject({"question"}, EmptyFilter, q) : q \in Questions}
    \cup {JsonObject({}, EmptyFilter, ""), JsonArray}

\* The text of a completion: the JSON text of a value, or text that is no JSON.
Contents == {[kind |-> "json", value |-> v] : v \in JsonValues}
            \cup {[kind |-> "not json", value |-> NoJson]}

\* No completion received.
NoContent == [kind |-> "", value |-> NoJson]

\* Mutant of JsonLoads: text that does not parse is taken as an empty filter
\* and an empty question.
JsonLoadsLenient(text) ==
    IF text.kind = "json"
    THEN [ok |-> TRUE, value |-> text.value]
    ELSE [ok |-> TRUE, value |-> JsonObject({"filter", "question"}, EmptyFilter, "")]

\* json.loads: the value of a JSON text; raises on any other text.
JsonLoads(text) ==
    IF text.kind = "json" THEN [ok |-> TRUE, value |-> text.value]
                          ELSE [ok |-> FALSE, value |-> NoJson]

\* formatted_response[key] succeeds on a dict that holds the key (KeyError
\* otherwise, TypeError on a list).
HasKey(value, key) == value.type = "object" /\ key \in value.keys

\* get_huggingface_embeddings: the vector of a text, fixed by the text.
Embed(text) == [model |-> "sentence-transformers/all-mpnet-base-v2", of |-> text]

NoVector == [model |-> "", of |-> ""]

\* The text get_augmented_context embeds.
EmbeddedText(response, query) == response.question

\* The match of rank k in an answer of the index; its text is labelled by the
\* document it comes from.
Match(doc) == [id |-> doc, metadata |-> [text |-> doc]]

\* Mutant of Slice: the slice keeps one snippet too many.
SliceOffByOne(context, limit) == SubSeq(context, 1, Min(Len(context), limit + 1))

\* context[ : 10]
Slice(context, limit) == SubSeq(context, 1, Min(Len(context), limit))

\* The pieces of the context block.
Token(kind, text) == [kind |-> kind, text |-> text]

\* sep.join(context): the snippets with the separator between neighbours.
Join(context) ==
    [k \in 1..(IF Len(context) = 0 THEN 0 ELSE 2 * Len(context) - 1) |->
        IF k % 2 = 1 THEN Token("snippet", context[(k + 1) \div 2])
                     ELSE Token("separator", 0)]

\* "<CONTEXT>\n" + join(context[ : 10]) + "\n-------\n</CONTEXT>\n\n\n\n"
AugmentedContext(matches) ==
    LET context == [k \in 1..Len(matches) |-> matches[k].metadata.text]
    IN  <<Token("<CONTEXT>", 0)>> \o Join(Slice(context, ContextLimit))
          \o <<Token("</CONTEXT>", 0)>>

-----------------------------------------------------------------------------
\* flask/app.py: explore().

\* The handler ends with an unhandled exception: Flask answers 500.
Raise ==
    /\ status' = 500
    /\ epc' = "responded"

\* request.json and data["user_query"]; the prompt is built from the query.
Receive ==
    /\ epc = "idle"
    /\ \E given \in BOOLEAN :
         IF given
         THEN /\ \E q \in UserQueries : user_query' = q
              /\ epc' = "completion"
              /\ UNCHANGED status
         ELSE /\ Raise
              /\ UNCHANGED user_query
    /\ UNCHANGED <<content, formatted_response, question_embeddings, top_matches,
                   augmented_context, completions, queries>>
    /\ UNCHANGED ingest_vars

\* Mutant of Complete: a completion request that raises is sent again.
CompleteRetrying ==
    /\ epc = "completion"
    /\ completions' = completions + 1
    /\ \E answered \in BOOLEAN :
         IF answered
         THEN /\ \E c \in Contents : content' = c
              /\ epc' = "loads"
         ELSE /\ completions < 2
              /\ UNCHANGED <<content, epc>>
    /\ UNCHANGED <<user_query, formatted_response, question_embeddings, top_matches,
                   augmented_context, queries, status>>
    /\ UNCHANGED ingest_vars

\* groq_client.chat.completions.create: one request; it returns a text or raises.
Complete ==
    /\ epc = "completion"
    /\ completions' = completions + 1
    /\ \E answered \in BOOLEAN :
         IF answered
         THEN /\ \E c \in Contents : content' = c
              /\ epc' = "loads"
              /\ UNCHANGED status
         ELSE /\ Raise
              /\ UNCHANGED content
    /\ UNCHANGED <<user_query, formatted_response, question_embeddings, top_matches,
                   augmented_context, queries>>
    /\ UNCHANGED ingest_vars

\* json.loads, then generate_prompt -> get_augmented_context up to the
\* embedding: the two subscripts and get_huggingface_embeddings.
Parse ==
    /\ epc = "loads"
    /\ LET loaded == JsonLoads(content)
       IN  IF ~loaded.ok
           THEN /\ Raise
                /\ UNCHANGED <<formatted_response, question_embeddings>>
           ELSE /\ formatted_response' = loaded.value
                /\ IF HasKey(loaded.value, "filter") /\ HasKey(loaded.value, "question")
                   THEN /\ question_embeddings' = Embed(EmbeddedText(loaded.value, user_query))
                        /\ epc' = "query"
                        /\ UNCHANGED status
                   ELSE /\ Raise
                        /\ UNCHANGED question_embeddings
    /\ UNCHANGED <<user_query, content, top_matches, augmented_context,
                   completions, queries>>
    /\ UNCHANGED ingest_vars

\* The query get_augmented_context sends.
IndexQuery(response, vector) ==
    [namespace |-> NAMESPACE, vector |-> vector, filter |-> response.filter,
     top_k |-> TopK]

\* pinecone_index.query: the index receives the query and answers with its
\* matches in ranking order, or raises.
Query ==
    /\ epc = "query"
    /\ queries' = Append(queries, IndexQuery(formatted_response, question_embeddings))
    /\ \E answered \in BOOLEAN :
         IF answered
         THEN /\ \E m \in 0..MaxMatches, order \in {"ascending", "descending"} :
                   top_matches' = [k \in 1..m |->
                       Match(IF order = "ascending" THEN k ELSE m + 1 - k)]
              /\ epc' = "assemble"
              /\ UNCHANGED status
         ELSE /\ Raise
              /\ UNCHANGED top_matches
    /\ UNCHANGED <<user_query, content, formatted_response, question_embeddings,
                   augmented_context, completions>>
    /\ UNCHANGED ingest_vars

\* The rest of get_augmented_context, get_question, and the 200 response.
Assemble ==
    /\ epc = "assemble"
    /\ augmented_context' = AugmentedContext(top_matches)
    /\ status' = 200
    /\ epc' = "responded"
    /\ UNCHANGED <<user_query, content, formatted_response, question_embeddings,
                   top_matches, completions, queries>>
    /\ UNCHANGED ingest_vars

ExploreInit ==
    /\ epc = "idle"
    /\ user_query = ""
    /\ content = NoContent
    /\ formatted_response = NoJson
    /\ question_embeddings = NoVector
    /\ top_matches = <<>>
    /\ augmented_context = <<>>
    /\ status = 0
    /\ completions = 0
    /\ queries = <<>>

\* The next request: nothing is kept from one request to the next.
NextRequest ==
    /\ epc = "responded"
    /\ epc' = "idle"
    /\ user_query' = ""
    /\ content' = NoContent
    /\ formatted_response' = NoJson
    /\ question_embeddings' = NoVector
    /\ top_matches' = <<>>
    /\ augmented_context' = <<>>
    /\ status' = 0
    /\ completions' = 0
    /\ queries' = <<>>
    /\ UNCHANGED ingest_vars

-----------------------------------------------------------------------------

\* What yf.Ticker(symbol).info can be: a dict with every key the code reads, a
\* dict without "longBusinessSummary", an empty dict (a symbol the provider does
\* not know), or an exception.
AllOutcomes == [s \in Universe |-> {"full", "nosummary", "empty", "raise"}]

\* The first process ever, after construction: no log exists yet.
ProcessInit ==
    /\ succ_file = NoFile
    /\ fail_file = NoFile
    /\ index = [s \in Universe |-> 0]
    /\ run = 1
    /\ mainpc = "get_tickers"
    /\ startup = LoadHistory(NoFile, NoFile)
    /\ successful_tickers = <<>>
    /\ unsuccessful_tickers = <<>>
    /\ tickers = <<>>
    /\ pc = <<>>
    /\ stock_description = <<>>
    /\ result = <<>>

\* Any listing and pool width; every external call can return or raise, and
\* the local disk takes every line.
IngestInit ==
    /\ ProcessInit
    /\ max_workers \in 1..MaxWorkers
    /\ company_tickers \in Batches
    /\ yf = AllOutcomes
    /\ pinecone = {"ok", "raise"}
    /\ fs = {"ok"}

TaskStep(i) ==
    \/ Start(i)
    \/ Upsert(i)
    \/ WriteSuccess(i)
    \/ AppendSuccess(i)
    \/ WriteFailure(i)
    \/ AppendFailure(i)

Next ==
    \/ GetTickers
    \/ \E i \in 1..MaxBatch : Start(i)
    \/ \E i \in 1..MaxBatch : Upsert(i)
    \/ \E i \in 1..MaxBatch : WriteSuccess(i)
    \/ \E i \in 1..MaxBatch : AppendSuccess(i)
    \/ \E i \in 1..MaxBatch : WriteFailure(i)
    \/ \E i \in 1..MaxBatch : AppendFailure(i)
    \/ PoolJoin
    \/ Crash
    \/ Rerun

Init == IngestInit /\ ExploreInit

\* The ingestion script, run and re-run.
Spec == Init /\ [][Next]_vars

\* A listing of IsoBatch distinct symbols.
IsoListing == SubSeq(<<"A", "B", "C", "D", "E">>, 1, IsoBatch)

\* A first process with empty logs, a listing of distinct symbols, one symbol
\* whose fetch always raises while every other fetch and every index write
\* succeeds, and a pool of any width up to the batch's size.
IsoInit ==
    /\ ProcessInit
    /\ ExploreInit
    /\ company_tickers = IsoListing
    /\ \E bad \in Range(IsoListing) :
          yf = [s \in Universe |-> IF s = bad THEN {"raise"} ELSE {"full"}]
    /\ pinecone = {"ok"}
    /\ fs = {"ok"}
    /\ max_workers \in 1..IsoBatch

IsoNext ==
    \/ GetTickers
    \/ \E i \in 1..IsoBatch : Start(i)
    \/ \E i \in 1..IsoBatch : Upsert(i)
    \/ \E i \in 1..IsoBatch : WriteSuccess(i)
    \/ \E i \in 1..IsoBatch : AppendSuccess(i)
    \/ \E i \in 1..IsoBatch : WriteFailure(i)
    \/ \E i \in 1..IsoBatch : AppendFailure(i)
    \/ PoolJoin

\* One run of the script over that batch.
IsoSpec == IsoInit /\ [][IsoNext]_vars

FairNext ==
    \/ GetTickers
    \/ \E i \in 1..MaxBatch : Start(i)
    \/ \E i \in 1..MaxBatch : Upsert(i)
    \/ \E i \in 1..MaxBatch : WriteSuccess(i)
    \/ \E i \in 1..MaxBatch : AppendSuccess(i)
    \/ \E i \in 1..MaxBatch : WriteFailure(i)
    \/ \E i \in 1..MaxBatch : AppendFailure(i)
    \/ PoolJoin
    \/ Rerun

\* Runs that are not killed: every worker thread and the main thread keep being
\* scheduled, and every external call returns or raises, so a step of a task or
\* of the main thread that stays possible is taken. Starting the script again
\* is up to the operator.
FairSpec ==
    /\ Init
    /\ [][FairNext]_vars
    /\ \A i \in 1..MaxBatch : WF_vars(TaskStep(i))
    /\ WF_vars(GetTickers)
    /\ WF_vars(PoolJoin)

ExploreNext ==
    \/ Receive
    \/ Complete
    \/ Parse
    \/ Query
    \/ Assemble
    \/ NextRequest

\* The /explore endpoint, request after request.
ExploreSpec == Init /\ [][ExploreNext]_vars

-----------------------------------------------------------------------------
\* Properties of the ingestion pipeline.

SuccessLog == Range(Logged(succ_file))
FailureLog == Range(Logged(fail_file))

\* The step stays within one process.
SameProcess == run' = run

\* The step is task i fetching its symbol (and so going on to the index write
\* or to the failure record).
Fetches(i) == pc[i] = "queued" /\ pc'[i] \in {"upsert", "except"}

\* C1: a symbol of the batch that is in the success log loaded at start-up
\* returns "already processed" with no fetch, no index write and no new line
\* in either log, and a new process loads every symbol the log holds, so a
\* second run writes nothing for what the first recorded as successful.
C1_SkipStep ==
    /\ SameProcess =>
         \A s \in Range(startup.successful) :
            /\ index'[s] = index[s]
            /\ Count(Logged(succ_file'), s) = Count(Logged(succ_file), s)
            /\ Count(Logged(fail_file'), s) = Count(Logged(fail_file), s)
            /\ \A i \in 1..Len(tickers') :
                 tickers'[i] = s =>
                    /\ pc'[i] \in {"queued", "done"}
                    /\ pc'[i] = "done" => result'[i] = "Already processed"
    /\ ~SameProcess => SuccessLog \subseteq Range(startup'.successful)

C1_LoadedSuccessesAreSkipped == [][C1_SkipStep]_vars

\* C1 witness: checkpoint recovery in a second process: one symbol of the
\* batch was loaded as successful and skipped, another was not and was processed.
C1_Witness ==
    /\ run = 2
    /\ mainpc = "exit"
    /\ \E i, j \in Tasks :
         /\ tickers[i] \in Range(startup.successful)
         /\ result[i] = "Already processed"
         /\ tickers[j] \notin Range(startup.successful)
         /\ result[j] = "Processed"

\* C2: over all runs, crashed ones included, the success log's symbols and the
\* union of both logs' symbols never shrink, and a symbol in the success log
\* is skipped by every later process: it is loaded at construction, stays in
\* the list, and no task of that process fetches it.
C2_MonotoneStep ==
    /\ SuccessLog \subseteq Range(Logged(succ_file'))
    /\ (SuccessLog \cup FailureLog)
          \subseteq (Range(Logged(succ_file')) \cup Range(Logged(fail_file')))
    /\ ~SameProcess =>
          \A s \in SuccessLog : AlreadyProcessed(s, successful_tickers')
    /\ SameProcess =>
          /\ Range(successful_tickers) \subseteq Range(successful_tickers')
          /\ \A i \in Tasks :
                Fetches(i) => ~AlreadyProcessed(tickers[i], successful_tickers)

C2_LogsNeverShrink == [][C2_MonotoneStep]_vars

\* C2 witness: a process that follows a crashed one (a symbol of the listing
\* was in neither log at start-up although the success log was not empty) and
\* has added to the success log.
C2_Witness ==
    /\ run = 2
    /\ startup.successful # <<>>
    /\ \E i \in 1..Len(company_tickers) :
          company_tickers[i] \notin
             (Range(startup.successful) \cup Range(startup.unsuccessful))
    /\ Len(Logged(succ_file)) > Len(startup.successful)

\* C3: from empty logs, with a batch of distinct symbols of which exactly one
\* always fails its fetch, every interleaving of a pool of any width can go on
\* until the script has ended, and then the failure log holds one line, the
\* failing symbol, and the success log holds each other symbol once; each
\* sibling's task returned success.
C3_Isolation ==
    /\ mainpc \in {"exit", "aborted"} \/ ENABLED IsoNext
    /\ mainpc = "exit" =>
         /\ Len(Logged(fail_file)) = 1
         /\ Len(Logged(succ_file)) = Len(tickers) - 1
         /\ \A i \in Tasks :
              IF yf[tickers[i]] = {"raise"}
              THEN /\ Logged(fail_file) = <<tickers[i]>>
                   /\ Count(Logged(succ_file), tickers[i]) = 0
                   /\ result[i] = "ERROR"
              ELSE /\ Count(Logged(succ_file), tickers[i]) = 1
                   /\ result[i] = "Processed"

\* C3 witness: the script has ended after a run, in a pool wider than one, that
\* recorded the failure and recorded the successes in another order than the
\* listing's.
C3_Witness ==
    /\ mainpc = "exit"
    /\ max_workers > 1
    /\ Len(Logged(fail_file)) = 1
    /\ Len(Logged(succ_file)) = IsoBatch - 1
    /\ Logged(succ_file) # SelectSeq(tickers, LAMBDA t : t \in Range(Logged(succ_file)))

NoDuplicates(batch) == \A i, j \in 1..Len(batch) : batch[i] = batch[j] => i = j

\* The lines a process has added to a log for a symbol.
NewLines(file, loaded, s) == Count(Logged(file), s) - Count(loaded, s)

\* The script has ended and task i has exactly one terminal outcome.
OneOutcome(i) ==
    LET s == tickers[i]
        success == NewLines(succ_file, startup.successful, s)
        failure == NewLines(fail_file, startup.unsuccessful, s)
    IN  \/ result[i] = "Already processed" /\ success = 0 /\ failure = 0
        \/ result[i] = "Processed" /\ success = 1 /\ failure = 0
        \/ result[i] = "ERROR" /\ success = 0 /\ failure = 1

-----------------------------------------------------------------------------
\* Properties of the /explore request.

\* The filter uses only fields of the metadata schema and declared operators.
RECURSIVE ValidFilter(_)
ValidFilter(filter) ==
    \A k \in 1..Len(filter) :
       LET entry == filter[k]
       IN  IF entry.key \in CompositeOperators
           THEN \A n \in 1..Len(entry.subs) : ValidFilter(entry.subs[n])
           ELSE /\ entry.key \in SchemaFields
                /\ \A n \in 1..Len(entry.ops) : entry.ops[n] \in LeafOperators

\* C5: the index never receives a query whose filter names a field outside the
\* metadata schema or an operator outside the declared ones.
C5_IndexNeverSeesInvalidFilter ==
    \A k \in 1..Len(queries) : ValidFilter(queries[k].filter)

\* The snippets of a context block, in order.
Snippets(block) ==
    LET kept == SelectSeq(block, LAMBDA token : token.kind = "snippet")
    IN  [k \in 1..Len(kept) |-> kept[k].text]

\* C6: the context block built from m matches holds min(m, 10) snippets, never
\* more than 10, and they are the first matches' texts in the index's order.
C6_ContextBound ==
    status = 200 =>
       LET snippets == Snippets(augmented_context)
       IN  /\ Len(snippets) = Min(Len(top_matches), 10)
           /\ Len(snippets) <= 10
           /\ \A k \in 1..Len(snippets) : snippets[k] = top_matches[k].metadata.text
           /\ Len(augmented_context) = IF snippets = <<>> THEN 2 ELSE 2 * Len(snippets) + 1

\* C6 witness: a 200 response built from more matches than the block may hold,
\* returned in an order that is not the ascending one.
C6_Witness ==
    /\ status = 200
    /\ Len(top_matches) > ContextLimit
    /\ top_matches[1].id > top_matches[2].id

\* The completion was a JSON object with a question and without a filter key.
FilterOmitted ==
    /\ formatted_response.type = "object"
    /\ formatted_response.keys = {"question"}

\* C7: a response without a filter key is handled as match-all: the request
\* has ended after one query that carries no metadata restriction, and not in
\* an error raised before the index was asked.
C7_OmittedFilterIsMatchAll ==
    epc = "responded" /\ FilterOmitted =>
       /\ Len(queries) = 1
       /\ queries[1].filter = EmptyFilter

\* C8: with an empty filter and an empty residual question, the text embedded
\* for the query is the full user query, and the query is match-all.
C8_EmptyQuestionEmbedsUserQuery ==
    /\ formatted_response.type = "object"
    /\ formatted_response.keys = {"filter", "question"}
    /\ formatted_response.filter = EmptyFilter
    /\ formatted_response.question = ""
    /\ epc \in {"query", "assemble", "responded"}
    => /\ question_embeddings = Embed(user_query)
       /\ \A k \in 1..Len(queries) :
            /\ queries[k].vector = Embed(user_query)
            /\ queries[k].filter = EmptyFilter

\* C9: when the completion's text does not parse, the request ends in an error:
\* no index query, no filter put in its place, no 200 response.
C9_UnparsableIsHardError ==
    content.kind = "not json" /\ epc # "loads" =>
       /\ epc = "responded"
       /\ status = 500
       /\ queries = <<>>
       /\ formatted_response = NoJson
       /\ augmented_context = <<>>

\* C9 witness: a request that received text that is no JSON and has ended.
C9_Witness ==
    /\ content.kind = "not json"
    /\ completions = 1
    /\ epc = "responded"
    /\ status = 500
-----------------------------------------------------------------------------
\* The two outcome logs together.

InBothLists(s) == s \in Range(successful_tickers) /\ s \in Range(unsuccessful_tickers)
InBothLogs(s) == s \in SuccessLog /\ s \in FailureLog

\* C10, as stated: once a task for a symbol has been attempted, and after it has
\* recorded its outcome, the symbol is in at most one of the two logs (here for
\* listings without repeated symbols, the case that favours the statement).
C10_AtMostOneLog ==
    NoDuplicates(company_tickers) =>
       \A i \in Tasks :
          pc[i] # "queued" => ~InBothLists(tickers[i]) /\ ~InBothLogs(tickers[i])

\* C10, amended: a symbol can be in both logs, a failure first and a success
\* after it; a symbol that was loaded as successful gets no failure record, so
\* if it is in both logs it was in the failure log when it was loaded.
C10_LoadedSuccessGainsNoFailure ==
    \A s \in Range(startup.successful) :
       InBothLists(s) \/ InBothLogs(s) => s \in Range(startup.unsuccessful)

\* C10 witness: a symbol loaded from the failure log only was attempted again,
\* succeeded, and is now in both logs and both lists.
C10_Witness ==
    \E i \in Tasks :
       /\ tickers[i] \in Range(startup.unsuccessful)
       /\ tickers[i] \notin Range(startup.successful)
       /\ result[i] = "Processed"
       /\ InBothLists(tickers[i])
       /\ InBothLogs(tickers[i])
-----------------------------------------------------------------------------
\* The index and the stock facts.

\* C11: entries written by ingestion are keyed by the ticker symbol, so after
\* any sequence of ingestion attempts (re-runs, retries after a failure,
\* repeated symbols of a batch) the index holds at most one entry per symbol.
C11_AtMostOneEntryPerSymbol == \A s \in Universe : index[s] <= 1

\* The default every stock_info.get but one is given.
Sentinel == "Information not available"

\* The provider's value of a field.
Provided(field) == <<"value", field>>

\* The provider's answer holds the key the field is read from.
HasInfoKey(info, field) ==
    \/ info = "full"
    \/ info = "nosummary" /\ field # "Business Summary"

\* _get_stock_info: the 13 properties; dict.get gives the key's value, else the
\* default, and None where no default is passed ("Business Summary").
GetStockInfo(info) ==
    [field \in SchemaFields |->
        IF HasInfoKey(info, field) THEN Provided(field)
        ELSE IF field = "Business Summary" THEN BusinessSummary(info)
        ELSE Sentinel]

\* C12: for every provider response, each of the 13 fields _get_stock_info
\* builds is the provider's value or the "not available" sentinel, never None:
\* no task goes to the index write with a None description.
C12_NoFieldIsNone ==
    \A i \in Tasks :
       pc[i] = "upsert" =>
          /\ stock_description[i] # None
          /\ \A info \in yf[tickers[i]] \ {"raise"} :
                \A field \in SchemaFields :
                   GetStockInfo(info)[field] \in {Provided(field), Sentinel}
-----------------------------------------------------------------------------
\* What ends a run.

\* What an earlier run can have left in a log: no file, or a line for "A".
PriorLogs == {NoFile, AppendLine(NoFile, "A")}

\* A process constructed over what earlier runs left (the index holds an entry
\* for every success they recorded), with a local disk that can refuse a line.
DiskInit ==
    /\ ExploreInit
    /\ succ_file \in PriorLogs
    /\ fail_file \in PriorLogs
    /\ index = [s \in Universe |-> Count(Logged(succ_file), s)]
    /\ run = 1
    /\ mainpc = "get_tickers"
    /\ startup = LoadHistory(succ_file, fail_file)
    /\ successful_tickers = startup.successful
    /\ unsuccessful_tickers = startup.unsuccessful
    /\ tickers = <<>>
    /\ pc = <<>>
    /\ stock_description = <<>>
    /\ result = <<>>
    /\ max_workers \in 1..MaxWorkers
    /\ company_tickers \in Batches
    /\ yf = AllOutcomes
    /\ pinecone = {"ok", "raise"}
    /\ fs = {"ok", "raise"}

DiskNext ==
    \/ GetTickers
    \/ \E i \in 1..MaxBatch : Start(i)
    \/ \E i \in 1..MaxBatch : Upsert(i)
    \/ \E i \in 1..MaxBatch : WriteSuccess(i)
    \/ \E i \in 1..MaxBatch : AppendSuccess(i)
    \/ \E i \in 1..MaxBatch : WriteFailure(i)
    \/ \E i \in 1..MaxBatch : AppendFailure(i)
    \/ PoolJoin

\* One run that is not killed, scheduled as in FairSpec, in which every
\* external call and every append to a log can return or raise.
DiskSpec ==
    /\ DiskInit
    /\ [][DiskNext]_vars
    /\ \A i \in 1..MaxBatch : WF_vars(TaskStep(i))
    /\ WF_vars(GetTickers)
    /\ WF_vars(PoolJoin)

\* A step of a run: the listing is asked for before anything is written, the
\* run aborts there or not at all, and a step that aborts it dispatches no task
\* and leaves both logs and the index as they were.
C13_AbortStep ==
    /\ mainpc = "get_tickers" => UNCHANGED <<succ_file, fail_file, index>>
    /\ mainpc' = "aborted" /\ mainpc # "aborted" =>
          /\ mainpc = "get_tickers"
          /\ tickers' = <<>> /\ pc' = <<>>
    /\ mainpc = "pool" => mainpc' \in {"pool", "exit"}

\* C13: a run aborts if and only if enumerating the tickers fails, and then no
\* task is dispatched and neither log nor the index is modified; no failure of
\* one symbol (fetch, embedding, index write or recording) aborts the run or
\* keeps the other symbols from being processed: the pool always reaches its
\* end with every task finished.
C13_OnlyEnumerationAborts ==
    /\ [][C13_AbortStep]_vars
    /\ [](mainpc = "aborted" => tickers = <<>> /\ pc = <<>>)
    /\ (mainpc = "pool") ~> (mainpc = "exit")
    /\ [](mainpc = "exit" => \A i \in Tasks : pc[i] = "done" /\ result[i] # "")

\* C13 witness: a run has ended in which the record of one symbol's failure
\* could not be written and another symbol was processed.
C13_Witness ==
    /\ mainpc = "exit"
    /\ \E i, j \in Tasks :
         /\ result[i] = "EXCEPTION"
         /\ result[j] = "Processed"
-----------------------------------------------------------------------------
\* Loading and recording the checkpoint.

\* What a log holds for _load_history: its lines when it is present, nothing
\* when it is absent.
Present(file) == IF file.exists THEN Logged(file) ELSE <<>>

\* C14: loading never fails because a log is absent: whichever of the two logs
\* are present when a process is constructed, it starts with the contents of
\* each present log and an empty list for each absent one, and one log's
\* absence does not change what is loaded from the other. (Until the listing
\* has been fetched the process has written nothing, so the logs are still
\* what was loaded.)
C14_LoadToleratesAbsentLogs ==
    mainpc = "get_tickers" =>
       /\ startup.successful = Present(succ_file)
       /\ startup.unsuccessful = Present(fail_file)
       /\ successful_tickers = startup.successful
       /\ unsuccessful_tickers = startup.unsuccessful

\* C14 witness: a process constructed when the failure log was present and the
\* success log was absent.
C14_Witness ==
    /\ run > 1
    /\ mainpc = "get_tickers"
    /\ ~succ_file.exists
    /\ fail_file.exists
    /\ startup.successful = <<>>
    /\ startup.unsuccessful # <<>>

\* C15: an outcome is appended to the durable log first and to the in-memory
\* list second, so in every reachable state (a crash between the two steps
\* included) each list holds a symbol at most as often as its log does, and a
\* process that has just been started holds exactly what the logs hold.
C15_LogIsAhead ==
    /\ \A s \in Range(successful_tickers) :
          Count(successful_tickers, s) <= Count(Logged(succ_file), s)
    /\ \A s \in Range(unsuccessful_tickers) :
          Count(unsuccessful_tickers, s) <= Count(Logged(fail_file), s)
    /\ mainpc = "get_tickers" =>
          /\ successful_tickers = Logged(succ_file)
          /\ unsuccessful_tickers = Logged(fail_file)

\* C15 witness: in a process that loaded a success log, a task is between the
\* two steps of recording a success: the line is in the log and not yet in the
\* list, which is where a crash leaves the log alone to tell the next process.
C15_Witness ==
    /\ run > 1
    /\ startup.successful # <<>>
    /\ \E i \in Tasks :
          /\ pc[i] = "append_success"
          /\ Count(Logged(succ_file), tickers[i]) = Count(successful_tickers, tickers[i]) + 1
-----------------------------------------------------------------------------
\* Repeated symbols and the membership check.

C17_DuplicatesAreNotRemoved ==
    /\ mainpc \in {"pool", "exit"} => tickers = company_tickers
    /\ \A s \in SuccessLog :
          LET new == NewLines(succ_file, startup.successful, s)
          IN  /\ new <= Count(tickers, s)
              /\ new >= 2 => max_workers >= 2

\* C17 witness: the batch holds a symbol twice that was not successful before,
\* the pool is at least two wide, both tasks passed the check, fetched, wrote
\* to the index and recorded the symbol: the success log has two lines for it.
C17_Witness ==
    /\ max_workers >= 2
    /\ \E i, j \in Tasks :
          /\ i # j
          /\ tickers[i] = tickers[j]
          /\ ~AlreadyProcessed(tickers[i], startup.successful)
          /\ result[i] = "Processed"
          /\ result[j] = "Processed"
          /\ Count(Logged(succ_file), tickers[i]) = 2
          /\ index[tickers[i]] = 2
-----------------------------------------------------------------------------
\* The order of the calls of one /explore request.

\* C18: a request issues at most one completion request and at most one index
\* query; the index query is issued only after the completion's answer has been
\* received and parsed; a request answered with 200 has issued exactly one of
\* each.
C18_OneCompletionThenOneQuery ==
    /\ completions <= 1
    /\ Len(queries) <= 1
    /\ queries # <<>> =>
          /\ completions = 1
          /\ content.kind = "json"
          /\ formatted_response = content.value
          /\ queries[1].filter = formatted_response.filter
    /\ status = 200 => completions = 1 /\ Len(queries) = 1

\* C18 witness: a request answered with 200 after a completion whose filter is
\* not empty.
C18_Witness ==
    /\ status = 200
    /\ completions = 1
    /\ Len(queries) = 1
    /\ queries[1].filter # EmptyFilter
-----------------------------------------------------------------------------
\* Retries of recorded failures, and the order of index write and success record.

\* The symbol was loaded from the failure log and not from the success log.
LoadedAsFailedOnly(s) ==
    s \in Range(startup.unsuccessful) /\ s \notin Range(startup.successful)

\* The tasks of the batch for a symbol that ended with the given result.
TasksWith(s, r) == {i \in Tasks : tickers[i] = s /\ result[i] = r}

\* C19: the failure log is never consulted by the check: no task is skipped
\* unless its symbol is in the success list, and when a run has ended, every
\* symbol of the batch that was loaded as failed only has been attempted again
\* by at least one task, and each of its failed attempts has added a line for
\* it to the failure log, which already held it.
C19_FailuresAreRetried ==
    /\ \A i \in Tasks :
          pc[i] = "done" /\ tickers[i] \notin Range(successful_tickers)
             => result[i] # "Already processed"
    /\ mainpc = "exit" =>
          \A s \in Range(tickers) :
             LoadedAsFailedOnly(s) =>
                /\ TasksWith(s, "Processed") \cup TasksWith(s, "ERROR") # {}
                /\ NewLines(fail_file, startup.unsuccessful, s)
                      = Cardinality(TasksWith(s, "ERROR"))

\* C19 witness: a later run has ended in which a symbol loaded as failed only
\* was attempted again and failed again: the failure log holds it twice.
C19_Witness ==
    /\ run > 1
    /\ mainpc = "exit"
    /\ \E i \in Tasks :
          /\ LoadedAsFailedOnly(tickers[i])
          /\ result[i] = "ERROR"
          /\ Count(Logged(fail_file), tickers[i]) >= 2

\* C20: a symbol is written to the success log only after its index write has
\* returned without error: in every reachable state, after a crash at any step
\* included, the index holds at least as many entries for a symbol as the
\* success log holds lines for it, so every symbol of the success log has an
\* entry in the index.
C20_SuccessRecordImpliesIndexEntry ==
    \A s \in SuccessLog :
       /\ index[s] >= 1
       /\ Count(Logged(succ_file), s) <= index[s]

\* C20 witness: after a crash between the index write and the success record,
\* one symbol has an index entry and no success record, and another symbol has
\* both.
C20_Witness ==
    /\ run > 1
    /\ mainpc = "get_tickers"
    /\ \E s, t \in Universe :
          /\ index[s] >= 1 /\ s \notin SuccessLog
          /\ index[t] >= 1 /\ t \in SuccessLog

====
